---- MODULE Spec2Model ----
(***************************************************************************)
(* A model of Bowl (src/src/lib.rs): a store of boxed records partitioned  *)
(* by TypeId, then by organization name, then by uuid.                     *)
(*                                                                         *)
(*   contents : TypeId -> (organization -> (uuid -> Box<dyn Any>))         *)
(*                                                                         *)
(* Every map is a function whose DOMAIN is the set of keys present.  A     *)
(* boxed record is a record carrying the TypeId of its concrete type and   *)
(* the four fields read through MediaTrait.  Vec results of the            *)
(* enumerating reads are bags: HashMap iteration order is unspecified.     *)
(***************************************************************************)
EXTENDS Naturals, FiniteSets, Sequences, Bags, TLC

\* Number of calls made on one Bowl in a run.
MaxOps == 3

\* TypeId::of::<T>() for two record types with the same field layout.
Types == {"T1", "T2"}
\* Organization names and uuids (arbitrary strings in the code).
Orgs == {"A", "B"}
Uuids == {"u1", "u2"}
Names == {"n1", "n2"}
\* enum Bingo, the state type C of the tests.
States == {"Runnable", "Running", "Finished", "Failed"}

\* struct MediaFile<C>, the record type of the tests.
MediaFile == [name : Names, uuid : Uuids, state : States, organization : Orgs]

\* Box::new(value) for value: T, as Box<dyn Any>: the value with the TypeId
\* that downcast_ref / downcast_mut compare against.
Box(T, value) == [type |-> T, name |-> value.name, uuid |-> value.uuid,
                  state |-> value.state, organization |-> value.organization]

\* MediaTrait accessors.
get_name(x) == x.name
get_uuid(x) == x.uuid
get_state(x) == x.state
get_organization(x) == x.organization
set_state(x, state) == [x EXCEPT !.state = state]

VARIABLES
    contents,   \* Bowl.contents
    op,         \* the last call made: its name and arguments
    ret,        \* what that call returned (or that it panicked)
    dropped,    \* the boxed value that call took out of the store, if any
    steps,      \* number of calls made
    tasks,      \* concurrent callers: where each is in the call it is making
    committed   \* concurrent callers: the contents the last finished write left

vars == <<contents, op, ret, dropped, steps, tasks, committed>>

----------------------------------------------------------------------------
\* Maps.

\* BTreeMap::new() / HashMap::default().
EmptyMap == [k \in {} |-> k]

contains_key(m, k) == k \in DOMAIN m

\* HashMap::insert / overwriting through a mutable entry.
insert(m, k, v) == [x \in (DOMAIN m) \cup {k} |-> IF x = k THEN v ELSE m[x]]

\* HashMap::remove: the map without the key.
remove(m, k) == [x \in (DOMAIN m) \ {k} |-> m[x]]

\* .entry(k).or_default(): the map with k present, holding its value or an
\* empty map.
or_default(m, k) == IF contains_key(m, k) THEN m ELSE insert(m, k, EmptyMap)

\* Option<T>, a panic, (), bool and Vec<&T> as tagged values.
None == [kind |-> "None", val |-> 0]
Some(x) == [kind |-> "Some", val |-> x]
Panic == [kind |-> "Panic", val |-> 0]
Unit == [kind |-> "Unit", val |-> 0]
Bool(b) == [kind |-> "Bool", val |-> b]
Vec(b) == [kind |-> "Vec", val |-> b]

\* downcast_ref::<T>() / downcast_mut::<T>() succeed exactly when the boxed
\* value's TypeId is T's.
downcast_ok(T, v) == v.type = T

----------------------------------------------------------------------------
\* Bowl's operations as functions of the contents.

\* Bowl::new.
new == EmptyMap

\* add keyed by one TypeId for every T (TypeId::of::<Box<dyn Any>>() for
\* TypeId::of::<T>()).
add_one_type_key(c, T, org, value) ==
    LET K == "T1"
        c1 == or_default(c, K)
        c2 == insert(c1, K, or_default(c1[K], get_organization(value)))
        part == c2[K][get_organization(value)]
    IN  insert(c2, K, insert(c2[K], get_organization(value),
                    insert(part, get_uuid(value), Box(T, value))))

\* add keyed by its org parameter instead of value.get_organization().
add_under_org_argument(c, T, org, value) ==
    LET c1 == or_default(c, T)
        c2 == insert(c1, T, or_default(c1[T], org))
        part == c2[T][org]
    IN  insert(c2, T, insert(c2[T], org,
                    insert(part, get_uuid(value), Box(T, value))))

\* add whose box answers to the TypeId of the erased type, not to T's (the
\* value boxed a second time: Box::new(Box::new(value) as Box<dyn Any>)).
add_boxed_twice(c, T, org, value) ==
    LET c1 == or_default(c, T)
        c2 == insert(c1, T, or_default(c1[T], get_organization(value)))
        part == c2[T][get_organization(value)]
    IN  insert(c2, T, insert(c2[T], get_organization(value),
                    insert(part, get_uuid(value),
                           [Box(T, value) EXCEPT !.type = "Box<dyn Any>"])))

\* add with the `true` arm leaving the stored box as it is (what
\* entry(uuid).or_insert(..) would do).
add_keep_existing(c, T, org, value) ==
    LET c1 == or_default(c, T)
        c2 == insert(c1, T, or_default(c1[T], get_organization(value)))
        part == c2[T][get_organization(value)]
    IN  IF contains_key(part, get_uuid(value))
        THEN c2
        ELSE insert(c2, T, insert(c2[T], get_organization(value),
                        insert(part, get_uuid(value), Box(T, value))))

\* add with the `true` arm merging field by field: only the state of the
\* stored box is replaced.
add_merge_state(c, T, org, value) ==
    LET c1 == or_default(c, T)
        c2 == insert(c1, T, or_default(c1[T], get_organization(value)))
        part == c2[T][get_organization(value)]
    IN  IF contains_key(part, get_uuid(value))
        THEN insert(c2, T, insert(c2[T], get_organization(value),
                        insert(part, get_uuid(value),
                               set_state(part[get_uuid(value)], get_state(value)))))
        ELSE insert(c2, T, insert(c2[T], get_organization(value),
                        insert(part, get_uuid(value), Box(T, value))))

\* Bowl::add.  Both or_default() calls run before contains_key, so the type
\* and organization partitions exist afterwards in either arm.  The `org`
\* parameter is not read: the organization key is value.get_organization().
add(c, T, org, value) ==
    LET c1 == or_default(c, T)
        c2 == insert(c1, T, or_default(c1[T], get_organization(value)))
        part == c2[T][get_organization(value)]
    IN  IF contains_key(part, get_uuid(value))
        THEN \* entry(uuid).and_modify(|x| *x = Box::new(value))
             insert(c2, T, insert(c2[T], get_organization(value),
                        insert(part, get_uuid(value), Box(T, value))))
        ELSE \* insert(uuid, Box::new(value))
             insert(c2, T, insert(c2[T], get_organization(value),
                        insert(part, get_uuid(value), Box(T, value))))

\* Bowl::add, the match scrutinee: both or_default() calls, then contains_key.
\* It leaves the partitions created and yields the arm to take.
add_check(c, T, org, value) ==
    LET c1 == or_default(c, T)
        c2 == insert(c1, T, or_default(c1[T], get_organization(value)))
    IN  [contents |-> c2,
         arm |-> contains_key(c2[T][get_organization(value)], get_uuid(value))]

\* Bowl::add, the arm taken: `true` overwrites through
\* entry(uuid).and_modify(..), which does nothing on a vacant entry; `false`
\* inserts.  Both reach the partition through or_default() again.
add_arm(c, T, org, value, arm) ==
    LET c1 == or_default(c, T)
        c2 == insert(c1, T, or_default(c1[T], get_organization(value)))
        part == c2[T][get_organization(value)]
    IN  IF arm /\ ~contains_key(part, get_uuid(value))
        THEN c2
        ELSE insert(c2, T, insert(c2[T], get_organization(value),
                        insert(part, get_uuid(value), Box(T, value))))

\* Bowl::add: the old box that `*x = Box::new(value)` overwrites and drops in
\* the `true` arm; nothing in the `false` arm.
add_dropped(c, T, org, value) ==
    IF /\ contains_key(c, T)
       /\ contains_key(c[T], get_organization(value))
       /\ contains_key(c[T][get_organization(value)], get_uuid(value))
    THEN Some(c[T][get_organization(value)][get_uuid(value)])
    ELSE None

\* Bowl::get.  x.get(uuid).unwrap() panics when the organization partition
\* exists and the uuid is not in it.
get(c, T, org, uuid) ==
    IF ~contains_key(c, T) THEN None
    ELSE IF ~contains_key(c[T], org) THEN None
    ELSE IF ~contains_key(c[T][org], uuid) THEN Panic
    ELSE IF downcast_ok(T, c[T][org][uuid]) THEN Some(c[T][org][uuid])
    ELSE None

\* update_state reaching the partition through entry(..).or_default(), as add
\* does.
update_state_or_default(c, T, uuid, org, state) ==
    LET c1 == or_default(c, T)
        c2 == insert(c1, T, or_default(c1[T], org))
    IN  IF ~contains_key(c2[T][org], uuid) THEN c2
        ELSE IF ~downcast_ok(T, c2[T][org][uuid]) THEN c2
        ELSE insert(c2, T, insert(c2[T], org,
                    insert(c2[T][org], uuid, set_state(c2[T][org][uuid], state))))

\* update_state enforcing a transition table: a Finished or Failed item keeps
\* its state.
update_state_unless_final(c, T, uuid, org, state) ==
    IF ~contains_key(c, T) THEN c
    ELSE IF ~contains_key(c[T], org) THEN c
    ELSE IF ~contains_key(c[T][org], uuid) THEN c
    ELSE IF ~downcast_ok(T, c[T][org][uuid]) THEN c
    ELSE IF get_state(c[T][org][uuid]) \in {"Finished", "Failed"} THEN c
    ELSE insert(c, T, insert(c[T], org,
                insert(c[T][org], uuid, set_state(c[T][org][uuid], state))))

\* Bowl::update_state.
update_state(c, T, uuid, org, state) ==
    IF ~contains_key(c, T) THEN c
    ELSE IF ~contains_key(c[T], org) THEN c
    ELSE IF ~contains_key(c[T][org], uuid) THEN c
    ELSE IF ~downcast_ok(T, c[T][org][uuid]) THEN c
    ELSE insert(c, T, insert(c[T], org,
                insert(c[T][org], uuid, set_state(c[T][org][uuid], state))))

\* delete that removes an organization partition once it is empty.
delete_prune(c, T, org, uuid) ==
    IF ~contains_key(c, T) THEN c
    ELSE IF ~contains_key(c[T], org) THEN c
    ELSE IF DOMAIN c[T][org] \subseteq {uuid} THEN insert(c, T, remove(c[T], org))
    ELSE insert(c, T, insert(c[T], org, remove(c[T][org], uuid)))

\* delete reaching the partition through entry(..).or_default(), as add does.
delete_or_default(c, T, org, uuid) ==
    LET c1 == or_default(c, T)
        c2 == insert(c1, T, or_default(c1[T], org))
    IN  insert(c2, T, insert(c2[T], org, remove(c2[T][org], uuid)))

\* Bowl::delete: the contents afterwards.
delete(c, T, org, uuid) ==
    IF ~contains_key(c, T) THEN c
    ELSE IF ~contains_key(c[T], org) THEN c
    ELSE insert(c, T, insert(c[T], org, remove(c[T][org], uuid)))

\* Bowl::delete: what mark.remove(uuid) hands back through the and_then
\* chain; the call returns its .is_some() and drops it.
delete_removed(c, T, org, uuid) ==
    IF ~contains_key(c, T) THEN None
    ELSE IF ~contains_key(c[T], org) THEN None
    ELSE IF ~contains_key(c[T][org], uuid) THEN None
    ELSE Some(c[T][org][uuid])

\* .collect() of the boxes under the keys the iterator chain keeps, as a bag.
collect(m, kept) ==
    [v \in {m[k] : k \in kept} |-> Cardinality({k \in kept : m[k] = v})]

\* get_all force-unwrapping the organization lookup, as get does the uuid
\* lookup.
get_all_unwrap(c, T, org) ==
    IF ~contains_key(c, T) THEN Vec(EmptyBag)
    ELSE IF ~contains_key(c[T], org) THEN Panic
    ELSE IF \E k \in DOMAIN c[T][org] : ~downcast_ok(T, c[T][org][k]) THEN Panic
    ELSE Vec(collect(c[T][org], DOMAIN c[T][org]))

\* Bowl::get_all.  downcast_ref::<T>().unwrap() panics on a value of another
\* type.
get_all(c, T, org) ==
    IF ~contains_key(c, T) THEN Vec(EmptyBag)
    ELSE IF ~contains_key(c[T], org) THEN Vec(EmptyBag)
    ELSE IF \E k \in DOMAIN c[T][org] : ~downcast_ok(T, c[T][org][k]) THEN Panic
    ELSE Vec(collect(c[T][org], DOMAIN c[T][org]))

\* filter_by_org_and_state with the comparison inverted (!= for ==).
filter_by_org_and_not_state(c, T, org, state) ==
    IF ~contains_key(c, T) THEN Vec(EmptyBag)
    ELSE IF ~contains_key(c[T], org) THEN Vec(EmptyBag)
    ELSE IF \E k \in DOMAIN c[T][org] : ~downcast_ok(T, c[T][org][k]) THEN Panic
    ELSE Vec(collect(c[T][org],
                     {k \in DOMAIN c[T][org] : get_state(c[T][org][k]) # state}))

\* Bowl::filter_by_org_and_state.
filter_by_org_and_state(c, T, org, state) ==
    IF ~contains_key(c, T) THEN Vec(EmptyBag)
    ELSE IF ~contains_key(c[T], org) THEN Vec(EmptyBag)
    ELSE IF \E k \in DOMAIN c[T][org] : ~downcast_ok(T, c[T][org][k]) THEN Panic
    ELSE Vec(collect(c[T][org],
                     {k \in DOMAIN c[T][org] : get_state(c[T][org][k]) = state}))

\* The methods impl Bowl defines.
Methods == {"new", "add", "get", "update_state", "delete", "get_all",
            "filter_by_org_and_state"}

\* Calls the concurrent callers make in all.
MaxCalls == 2

\* Callers sharing one Bowl.
Callers == {"c1", "c2"}

\* A caller that is in no call and has made no add.  `call` is the add the
\* caller is making or made last, `arm` the arm its match has chosen.
Idle == [pc |-> "idle", call |-> [name |-> "none"], arm |-> FALSE]

\* add, update_state and delete on &self: callable whatever borrows are alive.
may_borrow_mut_aliased(t, c) == TRUE

\* &mut self (add, update_state, delete): the call can be made only while no
\* other borrow of the Bowl is alive.
may_borrow_mut(t, c) == \A d \in Callers \ {c} : t[d].pc = "idle"

\* &self (get, get_all, filter_by_org_and_state): the call can be made only
\* while no &mut borrow of the Bowl is alive.
may_borrow(t, c) == ~\E d \in Callers \ {c} : t[d].pc = "checked"

----------------------------------------------------------------------------
\* The calls.  A panic ends the run: no call follows it.

Running == steps < MaxOps /\ ret.kind # "Panic"

Init ==
    /\ contents = new
    /\ op = [name |-> "new"]
    /\ ret = Unit
    /\ dropped = None
    /\ steps = 0
    /\ tasks = [c \in Callers |-> Idle]
    /\ committed = new

Add(T, org, value) ==
    /\ Running
    /\ contents' = add(contents, T, org, value)
    /\ op' = [name |-> "add", T |-> T, org |-> org, value |-> value]
    /\ ret' = Unit
    /\ dropped' = add_dropped(contents, T, org, value)
    /\ steps' = steps + 1
    /\ UNCHANGED <<tasks, committed>>

\* get looking the coordinate up through entry(..).or_default(), on &mut self.
Get_or_default(T, org, uuid) ==
    /\ Running
    /\ op' = [name |-> "get", T |-> T, org |-> org, uuid |-> uuid]
    /\ ret' = get(contents, T, org, uuid)
    /\ dropped' = None
    /\ steps' = steps + 1
    /\ contents' = LET c1 == or_default(contents, T)
                   IN  insert(c1, T, or_default(c1[T], org))
    /\ UNCHANGED <<tasks, committed>>

Get(T, org, uuid) ==
    /\ Running
    /\ op' = [name |-> "get", T |-> T, org |-> org, uuid |-> uuid]
    /\ ret' = get(contents, T, org, uuid)
    /\ dropped' = None
    /\ steps' = steps + 1
    /\ UNCHANGED <<contents, tasks, committed>>

UpdateState(T, uuid, org, state) ==
    /\ Running
    /\ contents' = update_state(contents, T, uuid, org, state)
    /\ op' = [name |-> "update_state", T |-> T, org |-> org, uuid |-> uuid,
              state |-> state]
    /\ ret' = Unit
    /\ dropped' = None
    /\ steps' = steps + 1
    /\ UNCHANGED <<tasks, committed>>

Delete(T, org, uuid) ==
    /\ Running
    /\ contents' = delete(contents, T, org, uuid)
    /\ op' = [name |-> "delete", T |-> T, org |-> org, uuid |-> uuid]
    /\ ret' = Bool(delete_removed(contents, T, org, uuid).kind = "Some")
    /\ dropped' = delete_removed(contents, T, org, uuid)
    /\ steps' = steps + 1
    /\ UNCHANGED <<tasks, committed>>

GetAll(T, org) ==
    /\ Running
    /\ op' = [name |-> "get_all", T |-> T, org |-> org]
    /\ ret' = get_all(contents, T, org)
    /\ dropped' = None
    /\ steps' = steps + 1
    /\ UNCHANGED <<contents, tasks, committed>>

FilterByOrgAndState(T, org, state) ==
    /\ Running
    /\ op' = [name |-> "filter_by_org_and_state", T |-> T, org |-> org,
              state |-> state]
    /\ ret' = filter_by_org_and_state(contents, T, org, state)
    /\ dropped' = None
    /\ steps' = steps + 1
    /\ UNCHANGED <<contents, tasks, committed>>

Next ==
    \/ \E T \in Types, org \in Orgs, value \in MediaFile : Add(T, org, value)
    \/ \E T \in Types, org \in Orgs, uuid \in Uuids : Get(T, org, uuid)
    \/ \E T \in Types, org \in Orgs, uuid \in Uuids, state \in States :
          UpdateState(T, uuid, org, state)
    \/ \E T \in Types, org \in Orgs, uuid \in Uuids : Delete(T, org, uuid)
    \/ \E T \in Types, org \in Orgs : GetAll(T, org)
    \/ \E T \in Types, org \in Orgs, state \in States :
          FilterByOrgAndState(T, org, state)

Spec == Init /\ [][Next]_vars

----------------------------------------------------------------------------
\* The same calls made by several callers.  A call holds its borrow of the
\* Bowl from its start to its return; add is taken in the two steps of its
\* match (the scrutinee, then the arm), the other bodies are one expression.

CanCall(c) == steps < MaxCalls /\ ret.kind # "Panic" /\ tasks[c].pc = "idle"

BeginAdd(c, T, org, value) ==
    /\ CanCall(c)
    /\ may_borrow_mut(tasks, c)
    /\ contents' = add_check(contents, T, org, value).contents
    /\ tasks' = [tasks EXCEPT ![c] =
                    [pc |-> "checked",
                     call |-> [name |-> "add", T |-> T, org |-> org, value |-> value],
                     arm |-> add_check(contents, T, org, value).arm]]
    /\ steps' = steps + 1
    /\ UNCHANGED <<op, ret, dropped, committed>>

EndAdd(c) ==
    /\ tasks[c].pc = "checked"
    /\ LET call == tasks[c].call
       IN  /\ contents' = add_arm(contents, call.T, call.org, call.value, tasks[c].arm)
           /\ op' = [name |-> "add", T |-> call.T, org |-> call.org,
                     value |-> call.value, by |-> c]
           /\ dropped' = add_dropped(contents, call.T, call.org, call.value)
    /\ ret' = Unit
    /\ committed' = contents'
    /\ tasks' = [tasks EXCEPT ![c] = [pc |-> "idle", call |-> tasks[c].call, arm |-> FALSE]]
    /\ UNCHANGED steps

CallUpdateState(c, T, uuid, org, state) ==
    /\ CanCall(c)
    /\ may_borrow_mut(tasks, c)
    /\ contents' = update_state(contents, T, uuid, org, state)
    /\ op' = [name |-> "update_state", T |-> T, org |-> org, uuid |-> uuid,
              state |-> state, by |-> c]
    /\ ret' = Unit
    /\ dropped' = None
    /\ committed' = contents'
    /\ steps' = steps + 1
    /\ UNCHANGED tasks

CallDelete(c, T, org, uuid) ==
    /\ CanCall(c)
    /\ may_borrow_mut(tasks, c)
    /\ contents' = delete(contents, T, org, uuid)
    /\ op' = [name |-> "delete", T |-> T, org |-> org, uuid |-> uuid, by |-> c]
    /\ ret' = Bool(delete_removed(contents, T, org, uuid).kind = "Some")
    /\ dropped' = delete_removed(contents, T, org, uuid)
    /\ committed' = contents'
    /\ steps' = steps + 1
    /\ UNCHANGED tasks

CallGet(c, T, org, uuid) ==
    /\ CanCall(c)
    /\ may_borrow(tasks, c)
    /\ op' = [name |-> "get", T |-> T, org |-> org, uuid |-> uuid, by |-> c]
    /\ ret' = get(contents, T, org, uuid)
    /\ dropped' = None
    /\ steps' = steps + 1
    /\ UNCHANGED <<contents, tasks, committed>>

CallGetAll(c, T, org) ==
    /\ CanCall(c)
    /\ may_borrow(tasks, c)
    /\ op' = [name |-> "get_all", T |-> T, org |-> org, by |-> c]
    /\ ret' = get_all(contents, T, org)
    /\ dropped' = None
    /\ steps' = steps + 1
    /\ UNCHANGED <<contents, tasks, committed>>

CallFilterByOrgAndState(c, T, org, state) ==
    /\ CanCall(c)
    /\ may_borrow(tasks, c)
    /\ op' = [name |-> "filter_by_org_and_state", T |-> T, org |-> org,
              state |-> state, by |-> c]
    /\ ret' = filter_by_org_and_state(contents, T, org, state)
    /\ dropped' = None
    /\ steps' = steps + 1
    /\ UNCHANGED <<contents, tasks, committed>>

NextConcurrent ==
    \E c \in Callers :
        \/ \E T \in Types, org \in Orgs, value \in MediaFile : BeginAdd(c, T, org, value)
        \/ EndAdd(c)
        \/ \E T \in Types, org \in Orgs, uuid \in Uuids, state \in States :
              CallUpdateState(c, T, uuid, org, state)
        \/ \E T \in Types, org \in Orgs, uuid \in Uuids : CallDelete(c, T, org, uuid)
        \/ \E T \in Types, org \in Orgs, uuid \in Uuids : CallGet(c, T, org, uuid)
        \/ \E T \in Types, org \in Orgs : CallGetAll(c, T, org)
        \/ \E T \in Types, org \in Orgs, state \in States :
              CallFilterByOrgAndState(c, T, org, state)

SpecConcurrent == Init /\ [][NextConcurrent]_vars

----------------------------------------------------------------------------
\* Properties.

\* The coordinate (T, org, uuid) holds an item.
present(c, T, org, uuid) ==
    /\ contains_key(c, T)
    /\ contains_key(c[T], org)
    /\ contains_key(c[T][org], uuid)

\* The last step was a call of the named operation.
Called(name) == steps' = steps + 1 /\ op'.name = name

\* C1: a get of a coordinate that holds no item (type partition absent,
\* organization partition absent, or uuid absent from an existing organization
\* partition) returns None and does not panic.
C1_GetMissingReturnsNone ==
    (op.name = "get" /\ ~present(contents, op.T, op.org, op.uuid)) => ret = None

\* C2: a delete of a coordinate that holds an item returns true, and a get of
\* that coordinate afterwards returns None (it does not panic), also when the
\* item was the only one of its partition.
C2_DeleteThenGetReturnsNone ==
    [][(Called("delete") /\ present(contents, op'.T, op'.org, op'.uuid))
         => /\ ret' = Bool(TRUE)
            /\ get(contents', op'.T, op'.org, op'.uuid) = None]_vars

\* C3: after add(org, value) the item is stored at (T, org, value.uuid), the
\* partition being the one the organization argument names, also when org is
\* not the organization recorded in value.
C3_AddStoresUnderOrgArgument ==
    op.name = "add" =>
        /\ present(contents, op.T, op.org, get_uuid(op.value))
        /\ contents[op.T][op.org][get_uuid(op.value)] = Box(op.T, op.value)

\* C4: round trip.  After add(o, i) of an item whose recorded organization is
\* o, get(o, i.uuid) returns a view with i's name, uuid, state and organization.
C4_RoundTrip ==
    (op.name = "add" /\ op.org = get_organization(op.value)) =>
        LET r == get(contents, op.T, op.org, get_uuid(op.value))
        IN  /\ r.kind = "Some"
            /\ get_name(r.val) = get_name(op.value)
            /\ get_uuid(r.val) = get_uuid(op.value)
            /\ get_state(r.val) = get_state(op.value)
            /\ get_organization(r.val) = get_organization(op.value)

\* The round trip happened on a store already holding another item of the
\* partition, and the add replaced an item with different fields.
C4_Witness ==
    /\ op.name = "add" /\ op.org = get_organization(op.value)
    /\ Cardinality(DOMAIN contents[op.T][op.org]) = 2
    /\ dropped.kind = "Some" /\ dropped.val # Box(op.T, op.value)
    /\ ret = Unit

\* C5: replace semantics.  When (T, o, u) holds an item, an add of an item
\* with the same (T, o, u) and different field values replaces it in full:
\* get returns the new value, the filter for the old state no longer returns
\* the old value, the filter for the new state returns the new value, and the
\* partition holds as many items as before.
C5_ReplaceInFull ==
    [][(/\ Called("add")
        /\ op'.org = get_organization(op'.value)
        /\ present(contents, op'.T, op'.org, get_uuid(op'.value))
        /\ contents[op'.T][op'.org][get_uuid(op'.value)] # Box(op'.T, op'.value))
       => LET T == op'.T
              o == op'.org
              u == get_uuid(op'.value)
              old == contents[T][o][u]
              fresh == Box(T, op'.value)
              in_old == filter_by_org_and_state(contents', T, o, get_state(old))
              in_new == filter_by_org_and_state(contents', T, o, get_state(fresh))
              before == get_all(contents, T, o)
              after == get_all(contents', T, o)
          IN  /\ get(contents', T, o, u) = Some(fresh)
              /\ in_old.kind = "Vec" /\ ~BagIn(old, in_old.val)
              /\ in_new.kind = "Vec" /\ CopiesIn(fresh, in_new.val) = 1
              /\ before.kind = "Vec" /\ after.kind = "Vec"
              /\ BagCardinality(after.val) = BagCardinality(before.val)
              /\ \A x \in BagToSet(after.val) : get_uuid(x) = u => x = fresh]_vars

\* An add replaced an item of different name and state, next to another item.
C5_Witness ==
    /\ op.name = "add" /\ op.org = get_organization(op.value)
    /\ dropped.kind = "Some"
    /\ get_name(dropped.val) # get_name(op.value)
    /\ get_state(dropped.val) # get_state(op.value)
    /\ Cardinality(DOMAIN contents[op.T][op.org]) = 2

\* What get_all::<T>(o) is to return after a call, given the items it returned
\* before: an add(o, i) puts i in place of the item with i's uuid, a
\* delete(o, u) takes the item with uuid u out, an update_state(u, o, s)
\* gives the item with uuid u the state s, and a call addressed to another
\* type or organization, or a read, changes nothing.
ItemsAfterCall(items, T, o, call) ==
    IF call.name \in {"add", "delete", "update_state"} /\ call.T = T /\ call.org = o
    THEN CASE call.name = "add" ->
                {x \in items : get_uuid(x) # get_uuid(call.value)}
                    \cup {Box(T, call.value)}
           [] call.name = "delete" ->
                {x \in items : get_uuid(x) # call.uuid}
           [] call.name = "update_state" ->
                {IF get_uuid(x) = call.uuid THEN set_state(x, call.state) ELSE x :
                    x \in items}
    ELSE items

\* get_all::<T>(o) returns each of the given items once and nothing else.
ReturnsExactly(r, items) ==
    /\ r.kind = "Vec"
    /\ BagToSet(r.val) = items
    /\ \A x \in items : CopiesIn(x, r.val) = 1

\* Over the steps whose call is covered, get_all follows the calls.
GetAllFollows(covered) ==
    (steps' = steps + 1 /\ covered) =>
        \A T \in Types, o \in Orgs :
            LET before == get_all(contents, T, o)
            IN  /\ before.kind = "Vec"
                /\ ReturnsExactly(get_all(contents', T, o),
                        ItemsAfterCall(BagToSet(before.val), T, o, op'))

\* Every call but an add whose organization argument is not the organization
\* recorded in the item.
OwnOrganization(call) ==
    call.name = "add" => call.org = get_organization(call.value)

\* C6: after any sequence of add, update_state and delete, get_all::<T>(o)
\* returns exactly one item per uuid whose latest add or delete on (T, o, uuid)
\* was an add, with the fields of that add and the state of the latest
\* update_state since.  Stated call by call: every call changes the result of
\* get_all::<T>(o) as ItemsAfterCall says, starting from the empty result.
C6_GetAllFollowsCalls == [][GetAllFollows(TRUE)]_vars

\* The same over the calls other than an add whose organization argument is
\* not the organization recorded in the item: this holds.
GetAllFollowsCallsOnOwnOrganization == [][GetAllFollows(OwnOrganization(op'))]_vars

\* The filtered result: the items of the bag whose state is s.
InState(b, s) == [x \in {y \in BagToSet(b) : get_state(y) = s} |-> b[x]]

\* C7: for every type, organization and state, filter_by_org_and_state(o, s)
\* returns exactly the items of get_all(o) whose state is s, as often as
\* get_all returns them, so every item of get_all(o) is in the filter result of
\* exactly one state; a filter call returns that result.
C7_FilterIsGetAllInState ==
    /\ \A T \in Types, o \in Orgs :
          LET all == get_all(contents, T, o)
              f(s) == filter_by_org_and_state(contents, T, o, s)
          IN  /\ all.kind = "Vec"
              /\ \A s \in States : f(s).kind = "Vec" /\ f(s).val = InState(all.val, s)
              /\ \A x \in BagToSet(all.val) :
                    /\ Cardinality({s \in States : BagIn(x, f(s).val)}) = 1
                    /\ \A s \in States :
                          BagIn(x, f(s).val) => CopiesIn(x, f(s).val) = CopiesIn(x, all.val)
    /\ op.name = "filter_by_org_and_state" =>
          LET all == get_all(contents, op.T, op.org)
          IN  ret = Vec(InState(all.val, op.state))

\* A filter call returned one of the two items of a partition.
C7_Witness ==
    /\ op.name = "filter_by_org_and_state"
    /\ ret.kind = "Vec" /\ BagCardinality(ret.val) = 1
    /\ BagCardinality(get_all(contents, op.T, op.org).val) = 2

\* What is stored at a coordinate: the box, or nothing.
stored(c, T, org, uuid) ==
    IF present(c, T, org, uuid) THEN Some(c[T][org][uuid]) ELSE None

\* C8: update_state(uuid, org, s) on a coordinate that holds an item sets the
\* item's state to s whatever its state was: get reports s, the item is in
\* the filter result of s and of no other state, its name, uuid, organization
\* and type are kept, the partition holds as many items as before, and every
\* other coordinate and the set of partitions are unchanged.
C8_UpdateStateSetsStateOnly ==
    [][(Called("update_state") /\ present(contents, op'.T, op'.org, op'.uuid))
       => LET T == op'.T
              o == op'.org
              u == op'.uuid
              old == contents[T][o][u]
              r == get(contents', T, o, u)
              f(s) == filter_by_org_and_state(contents', T, o, s)
          IN  /\ r = Some(set_state(old, op'.state))
              /\ get_state(r.val) = op'.state
              /\ get_name(r.val) = get_name(old)
              /\ get_uuid(r.val) = get_uuid(old)
              /\ get_organization(r.val) = get_organization(old)
              /\ \A s \in States :
                    /\ f(s).kind = "Vec"
                    /\ (\E x \in BagToSet(f(s).val) : get_uuid(x) = u) <=> s = op'.state
              /\ CopiesIn(r.val, f(op'.state).val) = 1
              /\ get_all(contents', T, o).kind = "Vec"
              /\ BagCardinality(get_all(contents', T, o).val)
                    = BagCardinality(get_all(contents, T, o).val)
              /\ DOMAIN contents' = DOMAIN contents
              /\ \A T2 \in DOMAIN contents : DOMAIN contents'[T2] = DOMAIN contents[T2]
              /\ \A T2 \in Types, o2 \in Orgs, u2 \in Uuids :
                    <<T2, o2, u2>> # <<T, o, u>> =>
                        stored(contents', T2, o2, u2) = stored(contents, T2, o2, u2)]_vars

\* An update_state hit one of the two items of a partition.
C8_Witness ==
    /\ op.name = "update_state"
    /\ present(contents, op.T, op.org, op.uuid)
    /\ get_state(contents[op.T][op.org][op.uuid]) = op.state
    /\ Cardinality(DOMAIN contents[op.T][op.org]) = 2

\* Over the writes that are covered: a write addressed to organization A
\* changes nothing that a read of another organization B returns, and nothing
\* stored under B.
OrganizationsIsolated(covered) ==
    (/\ steps' = steps + 1
     /\ op'.name \in {"add", "update_state", "delete"}
     /\ covered)
    => \A B \in Orgs \ {op'.org}, T \in Types :
          /\ get_all(contents', T, B) = get_all(contents, T, B)
          /\ \A s \in States :
                filter_by_org_and_state(contents', T, B, s)
                    = filter_by_org_and_state(contents, T, B, s)
          /\ \A u \in Uuids :
                /\ get(contents', T, B, u) = get(contents, T, B, u)
                /\ stored(contents', T, B, u) = stored(contents, T, B, u)

\* C9: isolation by organization.  An item added under A is never returned by
\* get_all(B), filter_by_org_and_state(B, s) or get(B, u) for another
\* organization B, also when both hold the same uuid, and an add, update_state
\* or delete addressed to (T, A, u) never changes what is stored at (T, B, u).
\* Stated call by call: a write addressed to A leaves every read of B and
\* everything stored under B as it was.
C9_OrganizationsIsolated == [][OrganizationsIsolated(TRUE)]_vars

\* The same over the writes other than an add whose organization argument is
\* not the organization recorded in the item: this holds.
OrganizationsIsolatedOnOwnOrganization ==
    [][OrganizationsIsolated(OwnOrganization(op'))]_vars

\* A type partition: the map of its organizations, or nothing.
partition(c, T) == IF contains_key(c, T) THEN Some(c[T]) ELSE None

\* Every item a read parameterized by T returns is an item of type T, stored
\* in T's partition.
ReadsReturnOwnType(c) ==
    \A T \in Types, o \in Orgs :
        /\ \A u \in Uuids :
              LET r == get(c, T, o, u)
              IN  r.kind = "Some" => r.val.type = T /\ r = stored(c, T, o, u)
        /\ LET all == get_all(c, T, o)
           IN  /\ all.kind = "Vec"
               /\ \A x \in BagToSet(all.val) :
                     x.type = T /\ stored(c, T, o, get_uuid(x)) = Some(x)
        /\ \A s \in States :
              LET f == filter_by_org_and_state(c, T, o, s)
              IN  /\ f.kind = "Vec"
                  /\ \A x \in BagToSet(f.val) :
                        x.type = T /\ stored(c, T, o, get_uuid(x)) = Some(x)

\* C10: isolation by type.  Items of two types under the same (organization,
\* uuid) do not collide: after an add of a T1 item where T2 holds one, both are
\* stored; a read parameterized by T1 returns only T1 items; and a call
\* parameterized by T1 changes nothing in T2's partition.
C10_TypesIsolated ==
    [][steps' = steps + 1 =>
        /\ ReadsReturnOwnType(contents')
        /\ \A T2 \in Types \ {op'.T} : partition(contents', T2) = partition(contents, T2)
        /\ (op'.name = "add" /\ op'.org = get_organization(op'.value)) =>
              /\ stored(contents', op'.T, op'.org, get_uuid(op'.value))
                    = Some(Box(op'.T, op'.value))
              /\ \A T2 \in Types \ {op'.T} :
                    stored(contents', T2, op'.org, get_uuid(op'.value))
                        = stored(contents, T2, op'.org, get_uuid(op'.value))
        /\ op'.name \in {"get_all", "filter_by_org_and_state"} =>
              ret'.kind = "Vec" /\ \A x \in BagToSet(ret'.val) : x.type = op'.T
        /\ (op'.name = "get" /\ ret'.kind = "Some") => ret'.val.type = op'.T]_vars

\* A get returned the item of one type while the other type holds an item
\* under the same organization and uuid.
C10_Witness ==
    /\ op.name = "get" /\ ret.kind = "Some"
    /\ \E T2 \in Types \ {op.T} :
          /\ present(contents, T2, op.org, op.uuid)
          /\ contents[T2][op.org][op.uuid] # ret.val

\* C11: a delete of a coordinate that holds no item (type partition absent,
\* organization partition absent, or uuid absent) returns false and leaves the
\* store, the set of partitions included, exactly as it was.
C11_DeleteMissingIsNoOp ==
    [][(Called("delete") /\ ~present(contents, op'.T, op'.org, op'.uuid))
       => /\ ret' = Bool(FALSE)
          /\ dropped' = None
          /\ contents' = contents
          /\ DOMAIN contents' = DOMAIN contents
          /\ \A T \in DOMAIN contents : DOMAIN contents'[T] = DOMAIN contents[T]]_vars

\* A delete returned false on a store that holds the uuid under the other
\* organization of the same type, and did not create the partition it named.
C11_Witness ==
    /\ op.name = "delete" /\ ret = Bool(FALSE)
    /\ contains_key(contents, op.T)
    /\ ~contains_key(contents[op.T], op.org)
    /\ \E o \in Orgs \ {op.org} : present(contents, op.T, o, op.uuid)

\* C12: an update_state of a coordinate that holds no item is a no-op: it
\* returns normally, creates no partition and no item, and leaves every stored
\* item as it was.
C12_UpdateStateMissingIsNoOp ==
    [][(Called("update_state") /\ ~present(contents, op'.T, op'.org, op'.uuid))
       => /\ ret' = Unit
          /\ contents' = contents
          /\ DOMAIN contents' = DOMAIN contents
          /\ \A T \in DOMAIN contents : DOMAIN contents'[T] = DOMAIN contents[T]
          /\ \A T \in Types, o \in Orgs, u \in Uuids :
                stored(contents', T, o, u) = stored(contents, T, o, u)]_vars

\* An update_state missed while the same uuid is held under another
\* organization and under another type, in another state.
C12_Witness ==
    /\ op.name = "update_state" /\ ret = Unit
    /\ ~present(contents, op.T, op.org, op.uuid)
    /\ \E o \in Orgs \ {op.org} :
          /\ present(contents, op.T, o, op.uuid)
          /\ get_state(contents[op.T][o][op.uuid]) # op.state
    /\ \E T \in Types \ {op.T} :
          /\ present(contents, T, op.org, op.uuid)
          /\ get_state(contents[T][op.org][op.uuid]) # op.state

\* The (T, org) partition is absent or holds no item.
no_items(c, T, org) ==
    \/ ~contains_key(c, T)
    \/ ~contains_key(c[T], org)
    \/ DOMAIN c[T][org] = {}

\* C13: get_all(o) and filter_by_org_and_state(o, s) return an empty Vec, and
\* do not panic, when the (T, o) partition does not exist and when it exists
\* and has been emptied by deletes.
C13_EmptyPartitionReadsEmpty ==
    /\ \A T \in Types, o \in Orgs :
          no_items(contents, T, o) =>
              /\ get_all(contents, T, o) = Vec(EmptyBag)
              /\ \A s \in States :
                    filter_by_org_and_state(contents, T, o, s) = Vec(EmptyBag)
    /\ (op.name \in {"get_all", "filter_by_org_and_state"}
            /\ no_items(contents, op.T, op.org))
          => ret = Vec(EmptyBag) /\ BagCardinality(ret.val) = 0

\* A get_all read a partition that a delete had emptied.
C13_Witness ==
    /\ op.name = "get_all" /\ ret = Vec(EmptyBag)
    /\ contains_key(contents, op.T) /\ contains_key(contents[op.T], op.org)
    /\ DOMAIN contents[op.T][op.org] = {}

\* C14: the store offers extend(items), a bulk insert that leaves the store as
\* one add per item in sequence order would.  impl Bowl defines no extend (its
\* one use, in tests::test_fuzzer, is commented out), so there is no operation
\* whose result could be compared with the adds: the claim fails at its first
\* part, that a call of extend exists.
C14_StoreOffersExtend ==
    /\ "extend" \in Methods
    /\ op.name \in Methods

\* C15: key consistency.  Every item stored at (T, o, u) has get_uuid() = u
\* and get_organization() = o, after every call (update_state included).
C15_KeysMatchItem ==
    \A T \in DOMAIN contents :
        \A o \in DOMAIN contents[T] :
            \A u \in DOMAIN contents[T][o] :
                /\ get_uuid(contents[T][o][u]) = u
                /\ get_organization(contents[T][o][u]) = o

\* An update_state hit an item while items are held under both organizations.
C15_Witness ==
    /\ op.name = "update_state"
    /\ present(contents, op.T, op.org, op.uuid)
    /\ get_state(contents[op.T][op.org][op.uuid]) = op.state
    /\ \A o \in Orgs : \E T \in Types, u \in Uuids : present(contents, T, o, u)

\* C16: type consistency.  Every box in the partition keyed by T's TypeId was
\* put there by an add parameterized by T, so the downcast to T succeeds on it
\* and get_all and filter_by_org_and_state never reach their unwrap with a
\* failed downcast; get on an occupied coordinate returns the item.
C16_PartitionHoldsOwnType ==
    /\ \A T \in DOMAIN contents :
          \A o \in DOMAIN contents[T] :
              \A u \in DOMAIN contents[T][o] :
                  /\ downcast_ok(T, contents[T][o][u])
                  /\ get(contents, T, o, u) = Some(contents[T][o][u])
    /\ \A T \in Types, o \in Orgs :
          /\ get_all(contents, T, o).kind = "Vec"
          /\ \A s \in States : filter_by_org_and_state(contents, T, o, s).kind = "Vec"
          /\ \A u \in Uuids, s \in States :
                update_state(contents, T, u, o, s) # contents
                    => stored(update_state(contents, T, u, o, s), T, o, u).val.type = T
    /\ op.name \in {"get_all", "filter_by_org_and_state"} => ret.kind = "Vec"

\* A filter returned an item while both type partitions hold items.
C16_Witness ==
    /\ op.name = "filter_by_org_and_state"
    /\ ret.kind = "Vec" /\ BagCardinality(ret.val) = 1
    /\ \A T \in Types : \E o \in Orgs, u \in Uuids : present(contents, T, o, u)

\* C17: partitions are never removed.  Over every call the type partitions and
\* the organization partitions that exist keep existing, and a delete of the
\* last item of (T, o) leaves the organization partition in place, empty.
C17_PartitionsOnlyGrow ==
    [][steps' = steps + 1 =>
        /\ DOMAIN contents \subseteq DOMAIN contents'
        /\ \A T \in DOMAIN contents : DOMAIN contents[T] \subseteq DOMAIN contents'[T]
        /\ (op'.name = "add") =>
              /\ contains_key(contents', op'.T)
              /\ contains_key(contents'[op'.T], get_organization(op'.value))
        /\ (/\ op'.name = "delete"
            /\ present(contents, op'.T, op'.org, op'.uuid)
            /\ DOMAIN contents[op'.T][op'.org] = {op'.uuid})
           => /\ contains_key(contents', op'.T)
              /\ contains_key(contents'[op'.T], op'.org)
              /\ DOMAIN contents'[op'.T][op'.org] = {}]_vars

\* A delete took the last item out of a partition, which is still there.
C17_Witness ==
    /\ op.name = "delete" /\ ret = Bool(TRUE)
    /\ contains_key(contents, op.T) /\ contains_key(contents[op.T], op.org)
    /\ DOMAIN contents[op.T][op.org] = {}

\* C18: get, get_all and filter_by_org_and_state leave the store as it was, for
\* every argument: no item changes and no type or organization partition is
\* created for a coordinate that is not found.
C18_ReadsChangeNothing ==
    [][(/\ steps' = steps + 1
        /\ op'.name \in {"get", "get_all", "filter_by_org_and_state"})
       => /\ contents' = contents
          /\ dropped' = None
          /\ DOMAIN contents' = DOMAIN contents
          /\ \A T \in DOMAIN contents : DOMAIN contents'[T] = DOMAIN contents[T]]_vars

\* A get found no organization partition in a store that holds items of the
\* type, and the partition is still absent.
C18_Witness ==
    /\ op.name = "get" /\ ret = None
    /\ contains_key(contents, op.T)
    /\ ~contains_key(contents[op.T], op.org)
    /\ \E o \in Orgs, u \in Uuids : present(contents, op.T, o, u)

----------------------------------------------------------------------------
\* Concurrent callers.

\* The caller is between add's existence check and its insert or overwrite.
Midway(c) == tasks[c].pc = "checked"

\* The call applied alone to the contents c.
applied(c, call) ==
    IF call.name = "add" THEN add(c, call.T, call.org, call.value)
    ELSE IF call.name = "update_state"
         THEN update_state(c, call.T, call.uuid, call.org, call.state)
    ELSE IF call.name = "delete" THEN delete(c, call.T, call.org, call.uuid)
    ELSE c

\* What the read returns on the contents c.
answered(c, call) ==
    IF call.name = "get" THEN get(c, call.T, call.org, call.uuid)
    ELSE IF call.name = "get_all" THEN get_all(c, call.T, call.org)
    ELSE filter_by_org_and_state(c, call.T, call.org, call.state)

AddReturns(c) == Midway(c) /\ tasks'[c].pc = "idle"

\* A call other than add is made and returns in the step.
Returns == steps' = steps + 1 /\ tasks' = tasks

WriteReturns ==
    \/ \E c \in Callers : AddReturns(c)
    \/ Returns /\ op'.name \in {"update_state", "delete"}

ReadReturns ==
    Returns /\ op'.name \in {"get", "get_all", "filter_by_org_and_state"}

\* The add that returns and the call that returned last are adds by two
\* callers of items that belong at one coordinate (T, o, u), both passed o.
TwoAddsToOneCoordinate(c) ==
    /\ AddReturns(c)
    /\ op.name = "add" /\ op.by # c
    /\ op.T = op'.T
    /\ op.org = op'.org
    /\ get_organization(op.value) = op.org
    /\ get_organization(op'.value) = op'.org
    /\ get_uuid(op.value) = get_uuid(op'.value)

\* C19: each write takes effect as one step under exclusive access to the
\* whole store.  While a caller is between add's existence check and its
\* insert or overwrite no other caller is, and while no caller is there the
\* contents are what the last returned write left.  A write that returns
\* leaves the contents that the call applied alone to what the last returned
\* write left would leave, so the store is always the calls applied one after
\* the other in the order of their return; nothing else moves that baseline.
\* A read is answered from the contents the last returned write left, never
\* from the contents between an add's check and its insert or overwrite.  Two
\* adds by two callers to one coordinate leave one item there, the value of
\* the add that returned last.
C19_WritesAreAtomic ==
    [][/\ \A c, d \in Callers : Midway(c)' /\ Midway(d)' => c = d
       /\ (\A c \in Callers : ~Midway(c)') => contents' = committed'
       /\ IF WriteReturns
          THEN contents' = applied(committed, op') /\ committed' = contents'
          ELSE committed' = committed
       /\ ReadReturns =>
             /\ \A c \in Callers : ~Midway(c)
             /\ ret' = answered(committed, op')
             /\ contents' = committed
       /\ \A c \in Callers : TwoAddsToOneCoordinate(c) =>
             /\ stored(contents', op'.T, op'.org, get_uuid(op'.value))
                    = Some(Box(op'.T, op'.value))
             /\ Cardinality(DOMAIN contents'[op'.T][op'.org])
                    = Cardinality(DOMAIN contents[op'.T][op'.org])]_vars

\* Two callers have each added their own item to one coordinate, the second
\* add overwrote the first, and both returned.
C19_Witness ==
    /\ steps = 2
    /\ \A c \in Callers : tasks[c].pc = "idle" /\ tasks[c].call.name = "add"
    /\ tasks["c1"].call.T = tasks["c2"].call.T
    /\ tasks["c1"].call.org = tasks["c2"].call.org
    /\ \A c \in Callers : get_organization(tasks[c].call.value) = tasks[c].call.org
    /\ get_uuid(tasks["c1"].call.value) = get_uuid(tasks["c2"].call.value)
    /\ tasks["c1"].call.value # tasks["c2"].call.value
    /\ op.name = "add" /\ op.by = "c2"
    /\ dropped = Some(Box(op.T, tasks["c1"].call.value))
    /\ stored(contents, op.T, op.org, get_uuid(op.value)) = Some(Box(op.T, op.value))

============================================================================
